---- MODULE Spec2Model ----
(***************************************************************************)
(* Model of the type-store crate (src/lib.rs): TypeIdHasher, the           *)
(* pass-through hasher for TypeId keys, and TypeStore, a                   *)
(* HashMap<TypeId, Box<dyn Any>, BuildHasherDefault<TypeIdHasher>>.        *)
(*                                                                         *)
(* The map is a set of entries (hash, key, box); a box carries the TypeId  *)
(* of its concrete type (what dyn Any reports), the identity of the value  *)
(* it owns and the value.  Every value handed to insert gets a fresh       *)
(* identity, so that drops and moves out of the store can be counted.      *)
(***************************************************************************)
EXTENDS Integers, Sequences, FiniteSets, TLC

\* ---- bounds ----
MaxVal == 2          \* values of each type are 1..MaxVal
MaxBoxes == 4        \* number of insert calls (Box::new allocations) explored

Types == {"u32", "str", "u64"}
Values == 1..MaxVal
Ids == 1..MaxBoxes

\* ---- Option ----
None == <<>>
Some(x) == <<x>>
is_some(o) == o # None
unwrap(o) == o[1]

\* ---- TypeId ----
\* TypeId::of::<T>(): one token per concrete type, equal iff the types are.
TypeIdOf(T) == CASE T = "u32" -> 11 [] T = "str" -> 23 [] T = "u64" -> 37

\* ---- TypeIdHasher ----
\* #[derive(Default)] struct TypeIdHasher(u64); unimplemented records that
\* the unimplemented!() of write() was hit.
TypeIdHasher_default == [state |-> 0, unimplemented |-> FALSE]

write(h, bytes) == [h EXCEPT !.unimplemented = TRUE]

write_u64(h, i) == [h EXCEPT !.state = i]

finish(h) == h.state

TypeId_hash_bytes(k, h) == write(h, k)

\* Hash of a TypeId key: the key feeds its 64-bit token to the hasher.
TypeId_hash(k, h) == write_u64(h, k)

\* One hashing session of BuildHasherDefault<TypeIdHasher>: a default
\* hasher, fed the key; the result is the hasher at the end of the session.
hash_one(k) == TypeId_hash(k, TypeIdHasher_default)

panics(k) == hash_one(k).unimplemented

\* ---- Box<dyn Any> ----
Box_new(T, id, v) == [tid |-> TypeIdOf(T), id |-> id, val |-> v]

\* <dyn Any>::is::<T>(): the box's own type id against TypeId::of::<T>()
is(b, T) == b.tid = TypeIdOf(T)

downcast_ref(b, T) == IF is(b, T) THEN Some(b.val) ELSE None

\* ---- HashMap ----
Entry(k, b) == [hash |-> finish(hash_one(k)), key |-> k, box |-> b]

find(m, k) == {e \in m : e.hash = finish(hash_one(k)) /\ e.key = k}

map_get(m, k) ==
    IF find(m, k) = {} THEN None ELSE Some((CHOOSE e \in find(m, k) : TRUE).box)

map_insert_keep(m, k, b) ==
    IF find(m, k) = {}
    THEN [map |-> m \cup {Entry(k, b)}, old |-> None]
    ELSE [map |-> m, old |-> Some(b)]

map_insert_push(m, k, b) == [map |-> m \cup {Entry(k, b)}, old |-> None]

\* HashMap::insert: the value of an existing key is replaced and the old
\* value returned.
map_insert(m, k, b) ==
    IF find(m, k) = {}
    THEN [map |-> m \cup {Entry(k, b)}, old |-> None]
    ELSE LET e == CHOOSE e \in find(m, k) : TRUE
         IN [map |-> (m \ {e}) \cup {Entry(k, b)}, old |-> Some(e.box)]

map_remove_keep(m, k) == [map |-> m, old |-> map_get(m, k)]

\* HashMap::remove: the entry is taken out and its value returned.
map_remove(m, k) ==
    IF find(m, k) = {}
    THEN [map |-> m, old |-> None]
    ELSE LET e == CHOOSE e \in find(m, k) : TRUE
         IN [map |-> m \ {e}, old |-> Some(e.box)]

\* ---- effects, in the order the code performs them ----
Store(id) == [ev |-> "store", id |-> id]
Drop(id) == [ev |-> "drop", id |-> id]
Move(id) == [ev |-> "move", id |-> id]

drop_opt(o) == IF is_some(o) THEN <<Drop(unwrap(o).id)>> ELSE <<>>

\* ---- TypeStore: what each method computes on a map ----
new == {}

insert_key_fixed(T) == TypeIdOf("u32")

\* the key insert files a value of type T under
insert_key(T) == TypeIdOf(T)

get(m, T) ==
    LET o == map_get(m, TypeIdOf(T))
    IN IF is_some(o) THEN downcast_ref(unwrap(o), T) ELSE None

get_mut_or_default(m, T) ==
    LET f == find(m, TypeIdOf(T))
    IN IF f = {} THEN Some(Entry(TypeIdOf(T), Box_new(T, 0, 1)))
       ELSE LET e == CHOOSE e \in f : TRUE
            IN IF is(e.box, T) THEN Some(e) ELSE None

\* the slot get_mut::<T>() hands out a &mut to, if any
get_mut(m, T) ==
    LET f == find(m, TypeIdOf(T))
    IN IF f = {} THEN None
       ELSE LET e == CHOOSE e \in f : TRUE
            IN IF is(e.box, T) THEN Some(e) ELSE None

write_through_lost(m, e, w) == m

\* a write of w through the &mut T that get_mut returned for entry e
write_through(m, e, w) == (m \ {e}) \cup {[e EXCEPT !.box.val = w]}

\* remove::<T>(): the entry leaves the map; a box of type T is moved out to
\* the caller, any other box is dropped with the Err of downcast.
remove(m, T) ==
    LET r == map_remove(m, TypeIdOf(T))
    IN IF ~is_some(r.old)
       THEN [map |-> r.map, res |-> None, effects |-> <<>>]
       ELSE IF is(unwrap(r.old), T)
            THEN [map |-> r.map, res |-> Some(unwrap(r.old).val),
                  effects |-> <<Move(unwrap(r.old).id)>>]
            ELSE [map |-> r.map, res |-> None,
                  effects |-> <<Drop(unwrap(r.old).id)>>]

contains(m, T) == find(m, TypeIdOf(T)) # {}

is_empty(m) == m = {}

clear_keep_one(m) == IF m = {} THEN {} ELSE {CHOOSE e \in m : TRUE}

clear(m) == {}

insert_effects_drop_first(id, old) == drop_opt(old) \o <<Store(id)>>

\* map.insert(..) stores the new box and returns the old one, which is a
\* temporary dropped at the end of the statement.
insert_effects(id, old) == <<Store(id)>> \o drop_opt(old)

\* the sequences that list each element of S once
Orders(S) ==
    {t \in [1..Cardinality(S) -> S] : \A x \in S : \E i \in 1..Cardinality(S) : t[i] = x}

DropCount(t, id) == Cardinality({i \in 1..Len(t) : t[i] = Drop(id)})
MovedIn(t) == {t[i].id : i \in {j \in 1..Len(t) : t[j].ev = "move"}}

VARIABLES map, nextId, dropped, moved, last, trace, hashing

vars == <<map, nextId, dropped, moved, last, trace, hashing>>

Call(op, T, arg, res, flag, p) ==
    [op |-> op, ty |-> T, arg |-> arg, res |-> res, flag |-> flag, panicked |-> p]

\* the effects of a call applied to the drop counts and the moved-out set
Account(t) ==
    /\ trace' = t
    /\ dropped' = [i \in Ids |-> dropped[i] + DropCount(t, i)]
    /\ moved' = moved \cup MovedIn(t)

Session(k) == Some([key |-> k, hasher |-> hash_one(k)])

Init ==
    /\ map = new
    /\ nextId = 1
    /\ dropped = [i \in Ids |-> 0]
    /\ moved = {}
    /\ last = Call("new", "-", None, None, FALSE, FALSE)
    /\ trace = <<>>
    /\ hashing = None

Insert(T, v) ==
    /\ nextId <= MaxBoxes
    /\ nextId' = nextId + 1
    /\ LET k == insert_key(T)
           b == Box_new(T, nextId, v)
           r == map_insert(map, k, b)
       IN /\ hashing' = Session(k)
          /\ IF panics(k)
             THEN /\ map' = map
                  /\ Account(<<Drop(nextId)>>)
                  /\ last' = Call("insert", T, Some(v), None, FALSE, TRUE)
             ELSE /\ map' = r.map
                  /\ Account(insert_effects(nextId, r.old))
                  /\ last' = Call("insert", T, Some(v), None, FALSE, FALSE)

Get(T) ==
    /\ hashing' = Session(TypeIdOf(T))
    /\ last' = IF panics(TypeIdOf(T))
               THEN Call("get", T, None, None, FALSE, TRUE)
               ELSE Call("get", T, None, get(map, T), FALSE, FALSE)
    /\ Account(<<>>)
    /\ UNCHANGED <<map, nextId>>

\* get_mut::<T>() then the caller's write through the returned reference:
\* wr is None when the caller writes nothing, Some(w) for *val = w.
GetMut(T, wr) ==
    /\ hashing' = Session(TypeIdOf(T))
    /\ IF panics(TypeIdOf(T))
       THEN /\ map' = map
            /\ last' = Call("get_mut", T, wr, None, FALSE, TRUE)
       ELSE LET r == get_mut(map, T)
            IN /\ map' = IF is_some(r) /\ is_some(wr)
                         THEN write_through(map, unwrap(r), unwrap(wr))
                         ELSE map
               /\ last' = Call("get_mut", T, wr,
                               IF is_some(r) THEN Some(unwrap(r).box.val) ELSE None,
                               FALSE, FALSE)
    /\ Account(<<>>)
    /\ UNCHANGED nextId

Remove(T) ==
    /\ hashing' = Session(TypeIdOf(T))
    /\ IF panics(TypeIdOf(T))
       THEN /\ map' = map
            /\ Account(<<>>)
            /\ last' = Call("remove", T, None, None, FALSE, TRUE)
       ELSE LET r == remove(map, T)
            IN /\ map' = r.map
               /\ Account(r.effects)
               /\ last' = Call("remove", T, None, r.res, FALSE, FALSE)
    /\ UNCHANGED nextId

Contains(T) ==
    /\ hashing' = Session(TypeIdOf(T))
    /\ last' = IF panics(TypeIdOf(T))
               THEN Call("contains", T, None, None, FALSE, TRUE)
               ELSE Call("contains", T, None, None, contains(map, T), FALSE)
    /\ Account(<<>>)
    /\ UNCHANGED <<map, nextId>>

\* clear() drops every box; the order is the map's iteration order, which
\* the program does not fix.
Clear ==
    /\ map' = clear(map)
    /\ \E t \in Orders({Drop(e.box.id) : e \in map \ clear(map)}) : Account(t)
    /\ last' = Call("clear", "-", None, None, FALSE, FALSE)
    /\ hashing' = None
    /\ UNCHANGED nextId

IsEmpty ==
    /\ last' = Call("is_empty", "-", None, None, is_empty(map), FALSE)
    /\ hashing' = None
    /\ Account(<<>>)
    /\ UNCHANGED <<map, nextId>>

Next ==
    \/ \E T \in Types, v \in Values : Insert(T, v)
    \/ \E T \in Types : Get(T)
    \/ \E T \in Types, wr \in {None} \cup {Some(w) : w \in Values} : GetMut(T, wr)
    \/ \E T \in Types : Remove(T)
    \/ \E T \in Types : Contains(T)
    \/ Clear
    \/ IsEmpty

Spec == Init /\ [][Next]_vars

\* ---- what the claims speak of ----
\* the slots whose stored value has concrete type T
Slots(m, T) == {e \in m : e.box.tid = TypeIdOf(T)}
\* the entries that own the value with identity id
Holders(m, id) == {e \in m : e.box.id = id}
Keys(m) == {e.key : e \in m}
\* a step that is a call of insert (only insert allocates a box)
InsertStep == nextId' = nextId + 1
Lookups == {"get", "get_mut", "remove"}

\* C1: right after insert(v) of a value of type T, whether or not T had a
\* slot, get::<T>() is Some(v) and contains::<T>() is true.
C1_InsertThenGet ==
    last.op = "insert" =>
        /\ ~last.panicked
        /\ get(map, last.ty) = last.arg
        /\ contains(map, last.ty)

\* an insert that overwrote a slot of its type
C1_Witness ==
    /\ last.op = "insert"
    /\ \E i \in 1..Len(trace) : trace[i].ev = "drop"
    /\ get(map, last.ty) = Some(2)

\* every value ever boxed is in exactly one place: held by one slot of the
\* map, moved out to a caller, or dropped once
Owned(m, d, mv, id) ==
    Cardinality(Holders(m, id)) + d[id] + (IF id \in mv THEN 1 ELSE 0) = 1

C2_OneSlotPerType ==
    /\ \A T \in Types : Cardinality(Slots(map, T)) <= 1
    /\ \A T \in Types : Cardinality(find(map, TypeIdOf(T))) <= 1
    /\ \A id \in Ids : id < nextId => Owned(map, dropped, moved, id)

C2_OverwriteStep ==
    \A T \in Types : \A e \in Slots(map, T) :
        (InsertStep /\ last'.ty = T) =>
            /\ Cardinality(Slots(map', T)) = 1
            /\ get(map', T) = last'.arg
            /\ dropped[e.box.id] = 0
            /\ dropped'[e.box.id] = 1
            /\ Holders(map', e.box.id) = {}
            /\ e.box.id \notin moved'

\* C2: the store holds at most one slot per type; an insert of v2: T on a
\* store that holds v1: T leaves exactly one slot for T, holding v2, and v1
\* has been dropped exactly once: no longer held, not moved out, not dropped
\* twice. No value is ever leaked or owned twice.
C2_InsertOverwrite == []C2_OneSlotPerType /\ [][C2_OverwriteStep]_vars

\* two values of one type inserted one after the other, the first dropped
C2_Witness ==
    /\ last.op = "insert"
    /\ nextId = 3
    /\ trace = <<Store(2), Drop(1)>>
    /\ dropped[1] = 1

C3_Step ==
    \A T \in Types :
        /\ (last.op = "insert" /\ last.ty = T /\ last'.op = "remove" /\ last'.ty = T) =>
               /\ last'.res = last.arg
               /\ ~last'.panicked
               /\ ~contains(map', T)
               /\ get(map', T) = None
               /\ remove(map', T).res = None
        /\ (last.op = "remove" /\ last.ty = T /\ last'.op = "remove" /\ last'.ty = T) =>
               last'.res = None
        /\ ((~contains(map, T) /\ contains(map', T)) \/ (get(map, T) = None /\ get(map', T) # None)) =>
               (InsertStep /\ last'.ty = T)

\* C3: remove::<T>() right after insert(v) returns Some(v) and deletes the
\* slot; a second remove::<T>() returns None; and a type without a slot
\* stays without one (contains false, get None) until it is inserted again.
C3_RemoveRoundTrip == [][C3_Step]_vars

\* a value inserted into an empty store and removed again
C3_Witness ==
    /\ last.op = "remove"
    /\ last.res = Some(2)
    /\ nextId = 2
    /\ moved = {1}
    /\ map = {}

\* C4: an insert of a value of type T leaves get::<U>() of every other type
\* U as it was.
C4_TypeIsolation ==
    [][\A T \in Types : (InsertStep /\ last'.ty = T) =>
            \A U \in Types \ {T} : get(map', U) = get(map, U)]_vars

\* a u32 and a &str stored together, each read back with its own value
C4_Witness ==
    /\ last.op = "insert"
    /\ last.ty = "str"
    /\ get(map, "u32") = Some(1)
    /\ get(map, "str") = Some(2)
    /\ get(map, "u64") = None

\* C5: the store of new() and the store left by clear() are empty:
\* is_empty() is true, and for every type contains is false and get is None.
C5_EmptyStore ==
    last.op \in {"new", "clear"} =>
        /\ is_empty(map)
        /\ \A T \in Types : ~contains(map, T) /\ get(map, T) = None

\* a clear of a store that held several types, after a remove
C5_Witness ==
    /\ last.op = "clear"
    /\ Len(trace) >= 2
    /\ moved # {}

C6_Visible ==
    (last.op = "get_mut" /\ is_some(last.res) /\ is_some(last.arg)) =>
        /\ get(map, last.ty) = last.arg
        /\ remove(map, last.ty).res = last.arg

C6_Step ==
    last'.op = "get_mut" =>
        /\ Keys(map') = Keys(map)
        /\ Cardinality(map') = Cardinality(map)
        /\ \A T \in Types \ {last'.ty} : get(map', T) = get(map, T)

\* C6: after get_mut::<T>() returned a reference and the caller wrote w
\* through it, get::<T>() is Some(w) and remove::<T>() would return Some(w);
\* the call adds and deletes no slot.
C6_MutationVisibility == []C6_Visible /\ [][C6_Step]_vars

\* a write through get_mut that changed the stored value
C6_Witness ==
    /\ last.op = "get_mut"
    /\ last.res = Some(1)
    /\ last.arg = Some(2)
    /\ Cardinality(map) = 2

\* C7: where the store has no slot for T, get, get_mut and remove of T
\* return None without aborting and leave the store as it was.
C7_AbsentValue ==
    [][\A T \in Types :
        (~contains(map, T) /\ last'.op \in Lookups /\ last'.ty = T) =>
            /\ last'.res = None
            /\ ~last'.panicked
            /\ map' = map
            /\ dropped' = dropped
            /\ moved' = moved]_vars

\* a lookup of a type that was removed, on a store that holds another type
C7_Witness ==
    /\ last.op = "get_mut"
    /\ last.res = None
    /\ ~contains(map, last.ty)
    /\ moved # {}
    /\ map # {}

\* C8: no call aborts, and every hashing session of a call fed the hasher
\* its key through write_u64 only: write() was not hit and finish() is the
\* key's token.
C8_NoHasherMisuse ==
    /\ ~last.panicked
    /\ (last.op \in Lookups \cup {"insert", "contains"}) <=> is_some(hashing)
    /\ is_some(hashing) =>
           /\ ~unwrap(hashing).hasher.unimplemented
           /\ finish(unwrap(hashing).hasher) = unwrap(hashing).key
           /\ unwrap(hashing).key = TypeIdOf(last.ty)

\* a hashing session for the key of &str
C8_Witness ==
    /\ last.op = "insert"
    /\ is_some(hashing)
    /\ finish(unwrap(hashing).hasher) = TypeIdOf("str")

\* C9 as stated: in an insert that overwrites, the old value is dropped
\* before the new one is placed in the slot.
C9_DropBeforeStore ==
    last.op = "insert" =>
        \A i, j \in 1..Len(trace) :
            (trace[i].ev = "drop" /\ trace[j].ev = "store") => i < j

\* C9, amended: in an insert that overwrites, the new value is placed in the
\* slot first and the old value is dropped after it, within the same call,
\* once, without a panic.
C9_StoreBeforeDrop ==
    last.op = "insert" =>
        /\ ~last.panicked
        /\ \A i, j \in 1..Len(trace) :
               (trace[i].ev = "drop" /\ trace[j].ev = "store") => j < i
        /\ \A i \in 1..Len(trace) :
               trace[i].ev = "drop" =>
                   /\ dropped[trace[i].id] = 1
                   /\ trace[i].id < nextId - 1
                   /\ Holders(map, trace[i].id) = {}
        /\ Holders(map, nextId - 1) # {}

\* the second insert of a type
C9_Witness ==
    /\ last.op = "insert"
    /\ Len(trace) = 2
    /\ trace[2].ev = "drop"

\* C10: every slot filed under the token of T holds a value of type T, so a
\* located slot always downcasts: contains::<T>() is true exactly when
\* get::<T>() is present (and get_mut, remove then yield it too), and
\* remove::<T>() returning None deletes nothing.
C10_KeyValueAgree ==
    /\ \A e \in map : e.box.tid = e.key
    /\ \A T \in Types :
        /\ contains(map, T) <=> is_some(get(map, T))
        /\ contains(map, T) <=> is_some(get_mut(map, T))
        /\ contains(map, T) <=> is_some(remove(map, T).res)
        /\ remove(map, T).res = None => remove(map, T).map = map

\* all three types stored, each under its own token
C10_Witness ==
    /\ Cardinality(map) = 3
    /\ \A T \in Types : contains(map, T) /\ is_some(get(map, T))
====
